---------------------------- MODULE Spec2Model ----------------------------
(***************************************************************************)
(* Model of app.py, the Streamlit used-car price estimator.                *)
(*                                                                         *)
(* Streamlit runs the script top to bottom once per user interaction (a    *)
(* "rerun").  What survives from one rerun to the next is the value held   *)
(* by each widget; everything the button handler computes (lines 88-158)   *)
(* lives for one rerun only.  One action of the model is one rerun.        *)
(*                                                                         *)
(* Representation choices:                                                 *)
(*  - a Python str is a sequence of one-character strings, so that         *)
(*    f-string concatenation, str comparison and sorted() are computed,    *)
(*    not assumed;                                                         *)
(*  - engine_size (a float on a 0.1 grid) is held in hundredths of a       *)
(*    litre: 2.0 is 200, the slider step 0.1 is 10;                        *)
(*  - the float quotient mileage / car_age is held exactly, as the         *)
(*    reduced fraction [num, den] (a float rounds it to the nearest        *)
(*    double); the int 0 of the else branch is [num |-> 0, den |-> 1];     *)
(*  - an indicator cell of pd.get_dummies (True, or 1 with older pandas;   *)
(*    True == 1 in Python) is 1.                                           *)
(***************************************************************************)
EXTENDS Integers, Sequences, FiniteSets, TLC

VARIABLES
    model,          \* line 33: what load_model returned, "None" or the unpickled predictor
    CURRENT_YEAR,   \* line 50: datetime.datetime.now().year
    brand,          \* line 64
    model_name,     \* line 65
    year,           \* line 69
    engine_size,    \* line 71, in hundredths of a litre
    fuel_type,      \* line 75
    transmission,   \* line 77
    mileage,        \* line 79
    doors,          \* line 83
    owner_count,    \* line 85
    outcome,        \* how the last rerun ended
    run,            \* what the button handler computed in the last rerun
    reruns          \* number of reruns so far

vars == << model, CURRENT_YEAR, brand, model_name, year, engine_size, fuel_type,
           transmission, mileage, doors, owner_count, outcome, run, reruns >>

widgets == << brand, model_name, year, engine_size, fuel_type, transmission,
              mileage, doors, owner_count >>

(***************************************************************************)
(* Bounds of the model.                                                    *)
(***************************************************************************)
\* A session is followed for at most this many reruns.
MaxReruns == 3
\* The clock's year at process start is FirstYear .. FirstYear + ClockAhead.
ClockAhead == 1

(***************************************************************************)
(* Python str: code points, comparison, sorted().                          *)
(***************************************************************************)
\* The characters the program's names are made of, by code-point range.
digits    == <<"0","1","2","3","4","5","6","7","8","9">>
uppercase == <<"A","B","C","D","E","F","G","H","I","J","K","L","M",
               "N","O","P","Q","R","S","T","U","V","W","X","Y","Z">>
lowercase == <<"a","b","c","d","e","f","g","h","i","j","k","l","m",
               "n","o","p","q","r","s","t","u","v","w","x","y","z">>

\* ord(c): ' ' is 32, '-' is 45, '0' is 48, 'A' is 65, '_' is 95, 'a' is 97.
ord == (" " :> 32) @@ ("-" :> 45) @@ ("_" :> 95)
       @@ [c \in {digits[i] : i \in 1..10} |-> 47 + (CHOOSE i \in 1..10 : digits[i] = c)]
       @@ [c \in {uppercase[i] : i \in 1..26} |-> 64 + (CHOOSE i \in 1..26 : uppercase[i] = c)]
       @@ [c \in {lowercase[i] : i \in 1..26} |-> 96 + (CHOOSE i \in 1..26 : lowercase[i] = c)]

RECURSIVE StrLessFrom(_, _, _)
StrLessFrom(a, b, i) ==
    IF i > Len(a) THEN i <= Len(b)
    ELSE IF i > Len(b) THEN FALSE
    ELSE IF a[i] = b[i] THEN StrLessFrom(a, b, i + 1)
    ELSE ord[a[i]] < ord[b[i]]

\* a < b on Python strs: lexicographic by code point, a proper prefix first.
StrLess(a, b) == StrLessFrom(a, b, 1)

Range(s) == {s[i] : i \in 1..Len(s)}

RECURSIVE SortedSeq(_)
SortedSeq(S) ==
    IF S = {} THEN << >>
    ELSE LET least == CHOOSE x \in S : \A y \in S \ {x} : StrLess(x, y)
         IN  << least >> \o SortedSeq(S \ {least})

\* sorted(list(set(names))) on a list of strs (line 135).
SortedUnique(names) == SortedSeq(Range(names))

\* f"{a}_{b}" (lines 92, 125, 128-132, and the column names of get_dummies).
Joined(a, b) == a \o <<"_">> \o b

(***************************************************************************)
(* Lines 39-49: the vocabularies behind the dropdowns.                     *)
(***************************************************************************)
brands ==
  << <<"A","u","d","i">>,                          \* 'Audi'
     <<"B","M","W">>,                              \* 'BMW'
     <<"C","h","e","v","r","o","l","e","t">>,      \* 'Chevrolet'
     <<"F","o","r","d">>,                          \* 'Ford'
     <<"H","o","n","d","a">>,                      \* 'Honda'
     <<"H","y","u","n","d","a","i">>,              \* 'Hyundai'
     <<"K","i","a">>,                              \* 'Kia'
     <<"M","e","r","c","e","d","e","s">>,          \* 'Mercedes'
     <<"T","o","y","o","t","a">>,                  \* 'Toyota'
     <<"V","o","l","k","s","w","a","g","e","n">>   \* 'Volkswagen'
  >>

\* The values of models_dict, in the order of its keys (which is the order of brands).
models_rows ==
  << << <<"A","3">>, <<"A","4">>, <<"Q","5">> >>,                                              \* 'A3', 'A4', 'Q5'
     << <<"3"," ","S","e","r","i","e","s">>, <<"5"," ","S","e","r","i","e","s">>, <<"X","5">> >>, \* '3 Series', '5 Series', 'X5'
     << <<"E","q","u","i","n","o","x">>, <<"I","m","p","a","l","a">>, <<"M","a","l","i","b","u">> >>, \* 'Equinox', 'Impala', 'Malibu'
     << <<"E","x","p","l","o","r","e","r">>, <<"F","i","e","s","t","a">>, <<"F","o","c","u","s">> >>, \* 'Explorer', 'Fiesta', 'Focus'
     << <<"A","c","c","o","r","d">>, <<"C","R","-","V">>, <<"C","i","v","i","c">> >>,           \* 'Accord', 'CR-V', 'Civic'
     << <<"E","l","a","n","t","r","a">>, <<"S","o","n","a","t","a">>, <<"T","u","c","s","o","n">> >>, \* 'Elantra', 'Sonata', 'Tucson'
     << <<"O","p","t","i","m","a">>, <<"R","i","o">>, <<"S","p","o","r","t","a","g","e">> >>,   \* 'Optima', 'Rio', 'Sportage'
     << <<"C","-","C","l","a","s","s">>, <<"E","-","C","l","a","s","s">>, <<"G","L","A">> >>,   \* 'C-Class', 'E-Class', 'GLA'
     << <<"C","a","m","r","y">>, <<"C","o","r","o","l","l","a">>, <<"R","A","V","4">> >>,       \* 'Camry', 'Corolla', 'RAV4'
     << <<"G","o","l","f">>, <<"P","a","s","s","a","t">>, <<"T","i","g","u","a","n">> >>        \* 'Golf', 'Passat', 'Tiguan'
  >>

models_dict == [b \in Range(brands) |->
                   models_rows[CHOOSE i \in 1..Len(brands) : brands[i] = b]]

fuel_types ==
  << <<"P","e","t","r","o","l">>,                  \* 'Petrol'
     <<"D","i","e","s","e","l">>,                  \* 'Diesel'
     <<"H","y","b","r","i","d">>,                  \* 'Hybrid'
     <<"E","l","e","c","t","r","i","c">>           \* 'Electric'
  >>

transmissions ==
  << <<"A","u","t","o","m","a","t","i","c">>,                       \* 'Automatic'
     <<"M","a","n","u","a","l">>,                                   \* 'Manual'
     <<"S","e","m","i","-","A","u","t","o","m","a","t","i","c">>    \* 'Semi-Automatic'
  >>

doors_options == << 2, 3, 4, 5 >>

\* The column names of input_data (lines 95-108).
Brand            == <<"B","r","a","n","d">>
Model            == <<"M","o","d","e","l">>
Year             == <<"Y","e","a","r">>
Engine_Size      == <<"E","n","g","i","n","e","_","S","i","z","e">>
Fuel_Type        == <<"F","u","e","l","_","T","y","p","e">>
Transmission     == <<"T","r","a","n","s","m","i","s","s","i","o","n">>
Mileage          == <<"M","i","l","e","a","g","e">>
Doors            == <<"D","o","o","r","s">>
Owner_Count      == <<"O","w","n","e","r","_","C","o","u","n","t">>
Car_Age          == <<"C","a","r","_","A","g","e">>
Mileage_per_Year == <<"M","i","l","e","a","g","e","_","p","e","r","_","Y","e","a","r">>
Brand_Model      == <<"B","r","a","n","d","_","M","o","d","e","l">>

(***************************************************************************)
(* Lines 17-35: loading the predictor.                                     *)
(***************************************************************************)
\* Lines 20-31: load_model returns the unpickled object, or None when the file
\* is missing or unreadable.  The predictor itself is opaque.
load_model == {"None", "XGBRegressor"}

\* The script without lines 34-35.
Halted_never == FALSE

\* Lines 34-35: if model is None, st.stop() ends the script run there.
Halted == model = "None"

(***************************************************************************)
(* Lines 59-85: the sidebar widgets.                                       *)
(***************************************************************************)
\* The value of a widget the script never created.
Unset == << >>

\* A selectbox that hands back the stored choice whatever the options are.
selectbox_stale(options, index, stored) ==
    IF stored # << >> THEN stored[1] ELSE options[index + 1]

\* st.selectbox(label, options, index).  `stored` is the choice the session
\* holds for the widget, << >> when it holds none: the stored choice while it
\* is one of the options, and options[index] otherwise.
selectbox(options, index, stored) ==
    IF stored # << >> /\ stored[1] \in Range(options)
    THEN stored[1] ELSE options[index + 1]

\* st.slider(label, min_value, max_value, value, step): the positions of the handle.
slider(min_value, max_value, step) ==
    {min_value + k * step : k \in 0..((max_value - min_value) \div step)}

\* st.number_input(label, min_value, max_value, value, step) with int bounds:
\* an integer v is accepted when it is within the bounds.
number_input(min_value, max_value, v) == min_value <= v /\ v <= max_value

\* Line 69: st.slider('Tahun Pembuatan', 2000, CURRENT_YEAR, 2018)
YearMin     == 2000
\* The slider built with a maximum one past the clock's year.
YearMax_next == CURRENT_YEAR + 1
YearMax     == CURRENT_YEAR
YearDefault == 2018
\* Line 71: st.slider('Ukuran Mesin (L)', 1.0, 5.0, 2.0, 0.1), in hundredths
EngineMin     == 100
\* The slider built with a maximum of 6.0.
EngineMax_six == 6 * 100
EngineMax     == 500
EngineDefault == 200
EngineStep    == 10
\* Line 79: st.number_input('Jarak Tempuh (km)', min_value=0, max_value=300000, value=50000, step=1000)
MileageMin     == 0
MileageMax     == 300000
MileageDefault == 50000
\* Line 83: st.selectbox('Jumlah Pintu', doors_options, index=2)
DoorsIndex == 2
\* Line 85: st.slider('Jumlah Pemilik Sebelumnya', 1, 5, 1)
OwnerMin     == 1
OwnerMax     == 5
OwnerDefault == 1

\* What the user may try to set each numeric widget to: values at, inside and
\* outside the bounds the widgets are built with.
YearInputs    == {1999, 2000, 2018, CURRENT_YEAR - 1, CURRENT_YEAR, CURRENT_YEAR + 1}
EngineInputs  == {90, 100, 105, 200, 500, 510, 600}
MileageInputs == {-1, 0, 12345, 50000, 300000, 300001, 500000}
DoorsInputs   == {1, 2, 3, 4, 5, 6}
OwnerInputs   == {0, 1, 3, 5, 6}

(***************************************************************************)
(* Lines 88-147: the button handler, as functions of the record.           *)
(***************************************************************************)
\* Line 90
car_age(current_year, y) == current_year - y

RECURSIVE GCD(_, _)
GCD(a, b) == IF b = 0 THEN a ELSE GCD(b, a % b)

Abs(n) == IF n < 0 THEN -n ELSE n

\* A float, held exactly as a reduced fraction with a positive denominator.
Float(n, d) ==
    LET g == GCD(Abs(n), Abs(d))
        s == IF d < 0 THEN -1 ELSE 1
    IN  [num |-> s * (Abs(n) \div g) * (IF n < 0 THEN -1 ELSE 1), den |-> Abs(d) \div g]

\* No float has denominator 0: this value stands for the raised ZeroDivisionError.
ZeroDivisionError == [num |-> 0, den |-> 0]

\* Python's a / b on ints.
TrueDiv(a, b) == IF b = 0 THEN ZeroDivisionError ELSE Float(a, b)

\* Python's a // b on ints, as a float-typed cell.
FloorDiv(a, b) == IF b = 0 THEN ZeroDivisionError ELSE [num |-> a \div b, den |-> 1]

\* The same line without its guard.
mileage_per_year_unguarded(m, age) == TrueDiv(m, age)

\* The same line with // for /.
mileage_per_year_floor(m, age) == IF age > 0 THEN FloorDiv(m, age) ELSE [num |-> 0, den |-> 1]

\* Line 91: mileage / car_age if car_age > 0 else 0
mileage_per_year(m, age) == IF age > 0 THEN TrueDiv(m, age) ELSE [num |-> 0, den |-> 1]

\* Line 92: f"{brand}_{model_name}"
brand_model(b, m) == Joined(b, m)

\* Lines 95-108: the one-row DataFrame, as its (column, cell) pairs in column order.
input_data(b, m, y, e, f, t, mi, d, o, age, mpy, bm) ==
    << <<Brand, b>>, <<Model, m>>, <<Year, y>>, <<Engine_Size, e>>,
       <<Fuel_Type, f>>, <<Transmission, t>>, <<Mileage, mi>>, <<Doors, d>>,
       <<Owner_Count, o>>, <<Car_Age, age>>, <<Mileage_per_Year, mpy>>,
       <<Brand_Model, bm>> >>

\* The list of line 117 without its last entry.
categorical_features_short == << Brand, Model, Fuel_Type, Transmission >>

\* Lines 117-118
categorical_features == << Brand, Model, Fuel_Type, Transmission, Brand_Model >>
numerical_features   == << Year, Engine_Size, Mileage, Doors, Owner_Count, Car_Age,
                           Mileage_per_Year >>

\* The column labels of a frame, in order.
Labels(frame) == [i \in 1..Len(frame) |-> frame[i][1]]

\* The cell of the column of `frame` labelled `label` (of a frame whose
\* labels are unique: input_data's are, and reindex refuses any other).
Cell(frame, label) == frame[CHOOSE i \in 1..Len(frame) : frame[i][1] = label][2]

\* pd.get_dummies(data, columns=columns) on one row: the columns not named in
\* `columns` in their order, then for each named column that the frame has,
\* one indicator column f"{column}_{value}" holding 1.
get_dummies(data, columns) ==
    LET have    == SelectSeq(columns, LAMBDA c : c \in Range(Labels(data)))
        dummies == [i \in 1..Len(have) |-> << Joined(have[i], Cell(data, have[i])), 1 >>]
    IN  SelectSeq(data, LAMBDA col : col[1] \notin Range(columns)) \o dummies

RECURSIVE ConcatAll(_)
ConcatAll(seqs) == IF seqs = << >> THEN << >> ELSE Head(seqs) \o ConcatAll(Tail(seqs))

\* The (b, m) pairs of "for b in brands for m in models_dict[b]", in order.
brand_model_pairs ==
    ConcatAll([i \in 1..Len(brands) |->
                 [j \in 1..Len(models_dict[brands[i]]) |->
                    << brands[i], models_dict[brands[i]][j] >>]])

\* [f"{prefix}_{v}" for v in values]
Prefixed(prefix, values) == [i \in 1..Len(values) |-> Joined(prefix, values[i])]

\* Line 125
all_models == [i \in 1..Len(brand_model_pairs) |->
                 Joined(brand_model_pairs[i][1], brand_model_pairs[i][2])]

\* Lines 127-132: the list before line 135 sorts it.
expected_cols_listed ==
    numerical_features
      \o Prefixed(Brand, brands)
      \o Prefixed(Model, [i \in 1..Len(brand_model_pairs) |-> brand_model_pairs[i][2]])
      \o Prefixed(Fuel_Type, fuel_types)
      \o Prefixed(Transmission, transmissions)
      \o Prefixed(Brand_Model, all_models)

\* The list of lines 127-132 as written, line 135 left out.
expected_cols_unsorted == expected_cols_listed

\* Lines 127-135
expected_cols == SortedUnique(expected_cols_listed)

\* A reindex that keeps only the columns the frame already has (no fill).
reindex_present(frame, columns, fill_value) ==
    LET have == SelectSeq(columns, LAMBDA c : c \in Range(Labels(frame)))
    IN  [exc |-> "", frame |-> [i \in 1..Len(have) |-> << have[i], Cell(frame, have[i]) >>]]

\* Line 139: frame.reindex(columns=columns, fill_value=fill_value).  pandas
\* raises ValueError when the frame's own labels are not unique.
reindex(frame, columns, fill_value) ==
    IF Cardinality(Range(Labels(frame))) # Len(frame)
    THEN [exc |-> "ValueError", frame |-> << >>]
    ELSE [exc |-> "",
          frame |-> [i \in 1..Len(columns) |->
                       << columns[i],
                          IF columns[i] \in Range(Labels(frame))
                          THEN Cell(frame, columns[i]) ELSE fill_value >>]]

\* Line 147: model.predict(final_input)[0].  The predictor is opaque: the
\* estimate is whatever the trained artifact answers.
predict(mdl, X) == IF mdl = "None" THEN "AttributeError" ELSE "estimate"

\* Lines 88-158 on one record: how the run ends, and what it computed.
Handler(mdl, current_year, b, m, y, e, f, t, mi, d, o) ==
    LET age == car_age(current_year, y)
        mpy == mileage_per_year(mi, age)
        bm  == brand_model(b, m)
        input_encoded == get_dummies(input_data(b, m, y, e, f, t, mi, d, o, age, mpy, bm),
                                     categorical_features)
        final_input   == reindex(input_encoded, expected_cols, 0)
        prediction    == predict(mdl, final_input.frame)
    IN  IF mpy = ZeroDivisionError
        THEN [outcome |-> "ZeroDivisionError", run |-> << >>]
        ELSE IF final_input.exc # ""
        THEN [outcome |-> final_input.exc, run |-> << >>]
        ELSE IF prediction = "AttributeError"
        THEN [outcome |-> "AttributeError", run |-> << >>]
        ELSE [outcome |-> "predicted",
              run |-> [car_age |-> age, mileage_per_year |-> mpy, brand_model |-> bm,
                       final_input |-> final_input.frame, prediction |-> prediction]]


(***************************************************************************)
(* The session: one action per rerun.                                      *)
(***************************************************************************)
\* The first run of the script.  When the model failed to load the run stops
\* at line 35 and no widget is ever created.
Init ==
    /\ model \in load_model
    /\ CURRENT_YEAR \in 2024..(2024 + ClockAhead)
    /\ reruns = 0
    /\ run = << >>
    /\ IF model = "None"
       THEN /\ outcome = "stopped"
            /\ brand = Unset /\ model_name = Unset /\ year = Unset
            /\ engine_size = Unset /\ fuel_type = Unset /\ transmission = Unset
            /\ mileage = Unset /\ doors = Unset /\ owner_count = Unset
       ELSE /\ outcome = "idle"
            /\ brand = selectbox(brands, 0, << >>)
            /\ model_name = selectbox(models_dict[brands[1]], 0, << >>)
            /\ year = YearDefault
            /\ engine_size = EngineDefault
            /\ fuel_type = selectbox(fuel_types, 0, << >>)
            /\ transmission = selectbox(transmissions, 0, << >>)
            /\ mileage = MileageDefault
            /\ doors = selectbox(doors_options, DoorsIndex, << >>)
            /\ owner_count = OwnerDefault

\* A rerun in which the button was not clicked: the handler's block is skipped.
Idle ==
    /\ ~Halted
    /\ reruns < MaxReruns
    /\ reruns' = reruns + 1
    /\ outcome' = "idle"
    /\ run' = << >>
    /\ UNCHANGED << model, CURRENT_YEAR >>

\* Line 64: the user picks a brand; line 65 then offers that brand's models.
SelectBrand(b) ==
    /\ Idle
    /\ b \in Range(brands) /\ b # brand
    /\ brand' = b
    /\ model_name' = selectbox(models_dict[b], 0, << model_name >>)
    /\ UNCHANGED << year, engine_size, fuel_type, transmission, mileage, doors, owner_count >>

\* Line 65
SelectModel(m) ==
    /\ Idle
    /\ m \in Range(models_dict[brand]) /\ m # model_name
    /\ model_name' = m
    /\ UNCHANGED << brand, year, engine_size, fuel_type, transmission, mileage, doors, owner_count >>

\* Line 69
SetYear(y) ==
    /\ Idle
    /\ y \in slider(YearMin, YearMax, 1) /\ y # year
    /\ year' = y
    /\ UNCHANGED << brand, model_name, engine_size, fuel_type, transmission, mileage, doors, owner_count >>

\* Line 71
SetEngineSize(e) ==
    /\ Idle
    /\ e \in slider(EngineMin, EngineMax, EngineStep) /\ e # engine_size
    /\ engine_size' = e
    /\ UNCHANGED << brand, model_name, year, fuel_type, transmission, mileage, doors, owner_count >>

\* Line 75
SelectFuelType(f) ==
    /\ Idle
    /\ f \in Range(fuel_types) /\ f # fuel_type
    /\ fuel_type' = f
    /\ UNCHANGED << brand, model_name, year, engine_size, transmission, mileage, doors, owner_count >>

\* Line 77
SelectTransmission(t) ==
    /\ Idle
    /\ t \in Range(transmissions) /\ t # transmission
    /\ transmission' = t
    /\ UNCHANGED << brand, model_name, year, engine_size, fuel_type, mileage, doors, owner_count >>

\* Line 79
SetMileage(mi) ==
    /\ Idle
    /\ number_input(MileageMin, MileageMax, mi) /\ mi # mileage
    /\ mileage' = mi
    /\ UNCHANGED << brand, model_name, year, engine_size, fuel_type, transmission, doors, owner_count >>

\* Line 83
SelectDoors(d) ==
    /\ Idle
    /\ d \in Range(doors_options) /\ d # doors
    /\ doors' = d
    /\ UNCHANGED << brand, model_name, year, engine_size, fuel_type, transmission, mileage, owner_count >>

\* Line 85
SetOwnerCount(o) ==
    /\ Idle
    /\ o \in slider(OwnerMin, OwnerMax, 1) /\ o # owner_count
    /\ owner_count' = o
    /\ UNCHANGED << brand, model_name, year, engine_size, fuel_type, transmission, mileage, doors >>

\* Lines 88-158: the user clicks the button.
Predict ==
    /\ ~Halted
    /\ reruns < MaxReruns
    /\ reruns' = reruns + 1
    /\ LET h == Handler(model, CURRENT_YEAR, brand, model_name, year, engine_size,
                        fuel_type, transmission, mileage, doors, owner_count)
       IN  outcome' = h.outcome /\ run' = h.run
    /\ UNCHANGED << model, CURRENT_YEAR, widgets >>

\* Lines 33-35 on a rerun of a session whose model did not load: st.cache_resource
\* hands back the cached None and the script stops again.
RerunHalted ==
    /\ Halted
    /\ reruns < MaxReruns
    /\ reruns' = reruns + 1
    /\ outcome' = "stopped"
    /\ UNCHANGED << model, CURRENT_YEAR, widgets, run >>

Next ==
    \/ \E b \in Range(brands) : SelectBrand(b)
    \/ \E m \in UNION {Range(models_rows[i]) : i \in 1..Len(models_rows)} : SelectModel(m)
    \/ \E y \in YearInputs : SetYear(y)
    \/ \E e \in EngineInputs : SetEngineSize(e)
    \/ \E f \in Range(fuel_types) : SelectFuelType(f)
    \/ \E t \in Range(transmissions) : SelectTransmission(t)
    \/ \E mi \in MileageInputs : SetMileage(mi)
    \/ \E d \in DoorsInputs : SelectDoors(d)
    \/ \E o \in OwnerInputs : SetOwnerCount(o)
    \/ Predict
    \/ RerunHalted

Spec == Init /\ [][Next]_vars


(***************************************************************************)
(* The handler as a function of an arbitrary record: the record is drawn   *)
(* from the vocabularies and from values outside them, and the handler of  *)
(* lines 88-147 is applied to it once.                                     *)
(***************************************************************************)
Ethanol  == <<"E","t","h","a","n","o","l">>
Tesla    == <<"T","e","s","l","a">>
Roadster == <<"R","o","a","d","s","t","e","r">>
CVT      == <<"C","V","T">>

InitEncode ==
    /\ model = "XGBRegressor"
    /\ CURRENT_YEAR = 2024
    /\ reruns = 0
    /\ run = << >>
    /\ outcome = "idle"
    /\ brand \in Range(brands) \cup {Tesla}
    /\ model_name \in (IF brand \in Range(brands) THEN Range(models_dict[brand]) ELSE {})
                        \cup {Roadster}
    /\ fuel_type \in Range(fuel_types) \cup {Ethanol}
    /\ transmission \in Range(transmissions) \cup {CVT}
    /\ year = YearDefault
    /\ engine_size = EngineDefault
    /\ mileage = MileageDefault
    /\ doors = doors_options[DoorsIndex + 1]
    /\ owner_count = OwnerDefault

NextEncode == Predict

EncodeSpec == InitEncode /\ [][NextEncode]_vars

(***************************************************************************)
(* Properties.                                                             *)
(***************************************************************************)
\* The button handler ran in the last rerun (to its end or to an exception).
HandlerRan == outcome \notin {"stopped", "idle"}

Predicted == outcome = "predicted"

BMW     == <<"B","M","W">>
Toyota  == <<"T","o","y","o","t","a">>
Camry   == <<"C","a","m","r","y">>
Diesel  == <<"D","i","e","s","e","l">>
Manual  == <<"M","a","n","u","a","l">>

AllModelNames == UNION {Range(models_rows[i]) : i \in 1..Len(models_rows)}

\* The indicator columns of each categorical field, from the vocabularies.
BrandColumns        == {Brand \o <<"_">> \o b : b \in Range(brands)}
ModelColumns        == {Model \o <<"_">> \o m : m \in AllModelNames}
FuelTypeColumns     == {Fuel_Type \o <<"_">> \o f : f \in Range(fuel_types)}
TransmissionColumns == {Transmission \o <<"_">> \o t : t \in Range(transmissions)}
BrandModelColumns   == UNION {{Brand_Model \o <<"_">> \o b \o <<"_">> \o m : m \in Range(models_dict[b])} :
                              b \in Range(brands)}
IndicatorFamilies   == {BrandColumns, ModelColumns, FuelTypeColumns, TransmissionColumns,
                        BrandModelColumns}
NumericColumns      == {Year, Engine_Size, Mileage, Doors, Owner_Count, Car_Age, Mileage_per_Year}
FullColumnSet       == NumericColumns \cup UNION IndicatorFamilies

\* The indicator columns the record's own values name.
OwnColumns ==
    { Brand \o <<"_">> \o brand,
      Model \o <<"_">> \o model_name,
      Fuel_Type \o <<"_">> \o fuel_type,
      Transmission \o <<"_">> \o transmission,
      Brand_Model \o <<"_">> \o brand \o <<"_">> \o model_name }

\* C1 (schema completeness): whenever a prediction was made, the key set of
\* final_input is the full expected column set (7 numeric columns and one
\* indicator per Brand, Model, FuelType, Transmission and Brand_Model of the
\* vocabulary), each key once, whatever categorical values the record takes;
\* the indicator columns that do not match the record's values are present
\* and hold 0.
C1_SchemaCompleteness ==
    Predicted =>
        /\ Range(Labels(run.final_input)) = FullColumnSet
        /\ Len(run.final_input) = Cardinality(FullColumnSet)
        /\ \A i \in 1..Len(run.final_input) :
              (run.final_input[i][1] \in (UNION IndicatorFamilies) \ OwnColumns)
                 => run.final_input[i][2] = 0

\* A prediction was made for a record away from the defaults.
C1_Witness == Predicted /\ brand = Toyota /\ fuel_type = Diesel

NumericCell(c) ==
    CASE c = Year             -> year
      [] c = Engine_Size      -> engine_size
      [] c = Mileage          -> mileage
      [] c = Doors            -> doors
      [] c = Owner_Count      -> owner_count
      [] c = Car_Age          -> run.car_age
      [] c = Mileage_per_Year -> run.mileage_per_year

\* C3 (alignment correctness): whenever a prediction was made, every
\* indicator column holds 1 exactly when it is the column of the value the
\* record takes for its field and 0 otherwise, so each of the five
\* categorical fields has exactly one indicator at 1; a BMW record has
\* Brand_BMW = 1, every other Brand_ column 0 and every Model_ column of
\* another brand present and 0; the numeric columns carry the record's raw
\* and derived values.
C3_AlignmentCorrect ==
    Predicted =>
        /\ \A i \in 1..Len(run.final_input) :
              LET c == run.final_input[i][1]
                  v == run.final_input[i][2]
              IN  IF c \in NumericColumns
                  THEN v = NumericCell(c)
                  ELSE v = (IF c \in OwnColumns THEN 1 ELSE 0)
        /\ \A family \in IndicatorFamilies :
              Cardinality({i \in 1..Len(run.final_input) :
                              /\ run.final_input[i][1] \in family
                              /\ run.final_input[i][2] = 1}) = 1
        /\ brand = BMW =>
              /\ Cell(run.final_input, Brand \o <<"_">> \o BMW) = 1
              /\ \A c \in BrandColumns \ {Brand \o <<"_">> \o BMW} :
                    Cell(run.final_input, c) = 0
              /\ \A m \in AllModelNames \ Range(models_dict[BMW]) :
                    /\ (Model \o <<"_">> \o m) \in Range(Labels(run.final_input))
                    /\ Cell(run.final_input, Model \o <<"_">> \o m) = 0

\* A prediction was made for a BMW.
C3_Witness == Predicted /\ brand = BMW

\* C4 (division guard): the handler never ends in a ZeroDivisionError, and
\* whenever it ran on a record with Year = CURRENT_YEAR it made a prediction
\* with Car_Age 0 and Mileage_per_Year exactly 0.
C4_DivisionGuard ==
    /\ outcome # "ZeroDivisionError"
    /\ (HandlerRan /\ year = CURRENT_YEAR) =>
          /\ Predicted
          /\ run.car_age = 0
          /\ run.mileage_per_year = [num |-> 0, den |-> 1]
          /\ Cell(run.final_input, Mileage_per_Year) = [num |-> 0, den |-> 1]

\* A prediction was made for a current-year car with mileage on it.
C4_Witness == Predicted /\ year = CURRENT_YEAR /\ mileage > 0

\* C5 (referential integrity): in every rerun that built the widgets, and in
\* particular whenever the handler runs, the chosen Model is one of
\* models_dict[Brand].
C5_ReferentialIntegrity ==
    outcome # "stopped" =>
        /\ brand \in Range(brands)
        /\ model_name \in Range(models_dict[brand])
        /\ Predicted => run.brand_model \in Range(all_models)

\* A prediction was made after the brand was changed and a model of the new
\* brand was chosen.
C5_Witness == Predicted /\ brand = BMW /\ model_name = models_dict[BMW][3]

\* C6 (age non-negativity): the year the widgets hold is within
\* 2000..CURRENT_YEAR, and whenever a prediction was made Car_Age >= 0.
C6_AgeNonNegative ==
    /\ outcome # "stopped" => (2000 <= year /\ year <= CURRENT_YEAR)
    /\ Predicted => (run.car_age >= 0 /\ Cell(run.final_input, Car_Age) >= 0)

\* A prediction was made for the oldest year the slider offers.
C6_Witness == Predicted /\ year = 2000 /\ run.car_age = CURRENT_YEAR - 2000

\* C7 (derived features): whenever a prediction was made, Car_Age is
\* CURRENT_YEAR - Year, Mileage_per_Year times Car_Age is Mileage whenever
\* Car_Age > 0, and Brand_Model is Brand, "_", Model concatenated; for
\* Toyota/Camry, Year 2018, Mileage 50000 in 2024 that is 6, 50000/6 and
\* "Toyota_Camry".
C7_DerivedFeatures ==
    Predicted =>
        /\ run.car_age + year = CURRENT_YEAR
        /\ run.car_age > 0 =>
              /\ run.mileage_per_year.den > 0
              /\ run.mileage_per_year.num * run.car_age = mileage * run.mileage_per_year.den
        /\ run.brand_model = brand \o <<"_">> \o model_name
        /\ ( /\ brand = Toyota /\ model_name = Camry /\ year = 2018
             /\ mileage = 50000 /\ CURRENT_YEAR = 2024 ) =>
              /\ run.car_age = 6
              /\ run.mileage_per_year = [num |-> 25000, den |-> 3]
              /\ run.brand_model = <<"T","o","y","o","t","a","_","C","a","m","r","y">>

\* The prediction of concrete scenario 1.
C7_Witness ==
    /\ Predicted /\ brand = Toyota /\ model_name = Camry /\ year = 2018
    /\ mileage = 50000 /\ CURRENT_YEAR = 2024 /\ run.car_age = 6

\* The session can take one more rerun.
CanRerun == ~Halted /\ reruns < MaxReruns

\* C8 as stated: Year in [2000, CURRENT_YEAR], EngineSize in [1.0, 6.0],
\* Mileage in [0, 500000], Doors in {2,3,4,5}, OwnerCount in [1,5]: no value
\* outside these reaches the handler, and every value inside them (on the
\* engine slider's 0.1 grid) can be entered.
C8_DomainsAsStated ==
    /\ HandlerRan =>
          /\ year \in 2000..CURRENT_YEAR
          /\ engine_size \in 100..600
          /\ mileage \in 0..500000
          /\ doors \in {2, 3, 4, 5}
          /\ owner_count \in 1..5
    /\ CanRerun =>
          /\ \A y \in YearInputs \cap (2000..CURRENT_YEAR) : year = y \/ ENABLED SetYear(y)
          /\ \A e \in {x \in EngineInputs : x \in 100..600 /\ x % 10 = 0} :
                engine_size = e \/ ENABLED SetEngineSize(e)
          /\ \A mi \in MileageInputs \cap (0..500000) : mileage = mi \/ ENABLED SetMileage(mi)
          /\ \A d \in DoorsInputs \cap {2, 3, 4, 5} : doors = d \/ ENABLED SelectDoors(d)
          /\ \A o \in OwnerInputs \cap (1..5) : owner_count = o \/ ENABLED SetOwnerCount(o)

\* C8 (field domains, amended): the program enforces Year in
\* [2000, CURRENT_YEAR], EngineSize in [1.0, 5.0] in steps of 0.1, Mileage an
\* integer in [0, 300000], Doors in {2,3,4,5} and OwnerCount in [1,5]: a value
\* can be entered exactly when it is in these domains, and no other value
\* reaches the handler.
C8_FieldDomains ==
    /\ outcome # "stopped" =>
          /\ year \in 2000..CURRENT_YEAR
          /\ engine_size \in 100..500 /\ engine_size % 10 = 0
          /\ mileage \in 0..300000
          /\ doors \in {2, 3, 4, 5}
          /\ owner_count \in 1..5
    /\ CanRerun =>
          /\ \A y \in YearInputs :
                (year = y \/ ENABLED SetYear(y)) <=> y \in 2000..CURRENT_YEAR
          /\ \A e \in EngineInputs :
                (engine_size = e \/ ENABLED SetEngineSize(e)) <=> (e \in 100..500 /\ e % 10 = 0)
          /\ \A mi \in MileageInputs :
                (mileage = mi \/ ENABLED SetMileage(mi)) <=> mi \in 0..300000
          /\ \A d \in DoorsInputs :
                (doors = d \/ ENABLED SelectDoors(d)) <=> d \in {2, 3, 4, 5}
          /\ \A o \in OwnerInputs :
                (owner_count = o \/ ENABLED SetOwnerCount(o)) <=> o \in 1..5

\* A prediction was made for a record at the upper end of the engine and
\* mileage domains.
C8_Witness == Predicted /\ engine_size = 500 /\ mileage = 300000

\* C9 (artifact unavailability): in a session whose model is None every run
\* stops at line 35: no widget is created, the handler never runs and no
\* estimate is shown; a prediction is made only with a loaded model.
C9_HaltedWithoutModel ==
    /\ model = "None" =>
          /\ outcome = "stopped"
          /\ widgets = << Unset, Unset, Unset, Unset, Unset, Unset, Unset, Unset, Unset >>
    /\ HandlerRan => model # "None"

\* A session whose model is None was rerun.
C9_Witness == model = "None" /\ reruns > 0 /\ outcome = "stopped"

\* C10 (canonical column order): whenever a prediction was made, the columns
\* of final_input are the expected column list, which is strictly increasing
\* in code-point lexicographic order (hence without duplicates), has 84
\* entries, as many as the names generated before sorting, and is the same
\* for every record.
C10_CanonicalOrder ==
    Predicted =>
        /\ Labels(run.final_input) = expected_cols
        /\ Len(run.final_input) = 84
        /\ Len(expected_cols_listed) = 84
        /\ \A i \in 1..(Len(run.final_input) - 1) :
              StrLess(run.final_input[i][1], run.final_input[i + 1][1])

\* A prediction was made for a record with a non-default transmission.
C10_Witness == Predicted /\ transmission = Manual /\ Len(run.final_input) = 84


=============================================================================
